---- MODULE Spec2Model ----
(***************************************************************************)
(* Model of eule's purge engine (src/main.go): the purgeTasks registry,    *)
(* the set_purge_interval / status command handlers, the purgeChecker due  *)
(* scan and the purgeChannel pagination / batched deletion run.            *)
(*                                                                         *)
(* Time is counted in half hours: time.Hour is 2 units.  A time.Duration   *)
(* is a signed integer of DurBits bits (int64 in the program); instants    *)
(* (time.Time) are plain integers.  Handlers run in goroutines of their    *)
(* own, purgeChecker and every purgeChannel run are goroutines too, and    *)
(* no lock guards purgeTasks, so the steps below interleave freely.        *)
(***************************************************************************)
EXTENDS Integers, Sequences, FiniteSets

\* ------------------------------------------------------------- bounds

MaxClock == 3
MaxRuns == 2
MaxWriters == 2
MaxSmall == 3
MaxSets == 2

\* ---------------------------------------------------- program constants

Hour == 2
DurBits == 8
PageSize == 100
ChunkSize == 100
BulkAge == 14 * 24 * Hour

Channels == {"c1", "c2"}
Units == {"hours", "days", "weeks"}
IntervalValues == {0, 1}

\* ------------------------------------------------------------- helpers

\* Two's complement wrap-around of a time.Duration product.
Wrap(x) == ((x + 2 ^ (DurBits - 1)) % (2 ^ DurBits)) - 2 ^ (DurBits - 1)

Range(s) == {s[k] : k \in 1..Len(s)}

Min(a, b) == IF a < b THEN a ELSE b

\* A unit switch without its default case.
KnownUnitAny(unit) == TRUE

\* switch unit { case "hours": ...; case "days": ...; default: return }
KnownUnit(unit) == unit \in {"hours", "days"}

UnitToDuration(intervalValue, unit) ==
    IF unit = "hours" THEN Wrap(intervalValue * Hour)
    ELSE Wrap(Wrap(intervalValue * Hour) * 24)

\* &PurgeTask{Interval: interval, NextPurge: time.Now().Add(interval)}
NewTask(now, interval) == [Interval |-> interval, NextPurge |-> now + interval]

\* Due with the boundary included: due as soon as now reaches NextPurge.
DueAtOrAfter(now, task) == now >= task.NextPurge

\* now.After(task.NextPurge)
Due(now, task) == now > task.NextPurge

\* Rescheduling from the missed due time instead of from now.
RescheduleFromDue(now, task) == [task EXCEPT !.NextPurge = @ + task.Interval]

\* Rescheduling with the interval subtracted instead of added.
RescheduleBack(now, task) == [task EXCEPT !.NextPurge = now - task.Interval]

\* Rescheduling to the tick's own time, the interval left out.
RescheduleEarly(now, task) == [task EXCEPT !.NextPurge = now]

\* Rescheduling that replaces the entry by one without its interval.
RescheduleDropsInterval(now, task) ==
    [Interval |-> 0, NextPurge |-> now + task.Interval]

\* task.NextPurge = now.Add(task.Interval)
Reschedule(now, task) == [task EXCEPT !.NextPurge = now + task.Interval]

\* The age test with the boundary on the wrong side: 14 days exactly counts as
\* recent.
YoungOrEdge(now, msg) == now - msg.Timestamp <= BulkAge

\* time.Since(t) < 14*24*time.Hour
Young(now, msg) == now - msg.Timestamp < BulkAge

\* ------------------------------------------------------------- state

VARIABLES
    clock,       \* what time.Now() returns
    purgeTasks,  \* the registry: channel id -> PurgeTask
    count,       \* the map's element count, what len(purgeTasks) returns
    writers,     \* handleSetPurgeInterval calls inside the map assignment
    scan,        \* the purgeChecker goroutine
    runs,        \* every purgeChannel goroutine launched so far
    store,       \* the message store: channel id -> history, newest first
    nSets,       \* set_purge_interval commands accepted so far
    lastStep,    \* what the latest step did at the command interface
    crashed      \* the runtime has thrown a fatal error

vars == <<clock, purgeTasks, count, writers, scan, runs, store, nSets, lastStep, crashed>>

Registered == DOMAIN purgeTasks

\* len(purgeTasks)
Count == count

\* The latest step neither ignored a command nor sent a response.
Quiet == [kind |-> "none"]

IdleScan == [pc |-> "wait", now |-> 0, initial |-> {}, visited |-> {},
             launched |-> {}, dueAtTick |-> {}]

\* The locals of purgeChannel at its first statement.
NewRun(channelID, now) ==
    [ch |-> channelID, launchedAt |-> now, pc |-> "fetch",
     messages |-> <<>>, beforeID |-> 0, i |-> 0, j |-> 0, messageIDs |-> <<>>,
     pastAge |-> {}, fetches |-> <<>>, calls |-> <<>>, fetchFailed |-> FALSE]

\* A message of the store: snowflake id and creation time.
Msg(id, ts) == [ID |-> id, Timestamp |-> ts]

\* A channel of the store: the messages posted to it, newest first, and the
\* ids of those deleted since.
Channel(posted) == [posted |-> posted, deleted |-> {}]

\* The histories of the scheduling specification: one message in c1, none
\* in c2.
SchedStore ==
    [c \in Channels |-> Channel(IF c = "c1" THEN <<Msg(1, 0)>> ELSE <<>>)]

Init ==
    /\ clock = 0
    /\ purgeTasks = <<>>
    /\ count = 0
    /\ writers = {}
    /\ scan = IdleScan
    /\ runs = <<>>
    /\ store = SchedStore
    /\ nSets = 0
    /\ lastStep = Quiet
    /\ crashed = FALSE

\* ------------------------------------------------------------ the clock

AdvanceClock ==
    /\ ~crashed
    /\ clock < MaxClock
    /\ clock' = clock + 1
    /\ UNCHANGED <<purgeTasks, count, writers, scan, runs, store, nSets, crashed>>
    /\ lastStep' = Quiet

\* ------------------------------------------------------ command handlers

\* handleSetPurgeInterval up to the map assignment: the unit switch and the
\* new task. An unknown unit returns at once.
SetBegin(channelID, intervalValue, unit) ==
    /\ ~crashed
    /\ IF KnownUnit(unit)
       THEN /\ Cardinality(writers) < MaxWriters
            /\ nSets < MaxSets
            /\ nSets' = nSets + 1
            /\ writers' = writers \cup
                 {[ch |-> channelID,
                   interval |-> UnitToDuration(intervalValue, unit),
                   now |-> clock,
                   task |-> NewTask(clock, UnitToDuration(intervalValue, unit))]}
            /\ lastStep' = Quiet
       ELSE /\ lastStep' = [kind |-> "ignored"]
            /\ UNCHANGED <<writers, nSets>>
    /\ UNCHANGED <<clock, purgeTasks, count, scan, runs, store, crashed>>

\* m[k] = v: the entry of k becomes v, whether or not k had one.
MapAssign(m, k, v) == [x \in (DOMAIN m) \cup {k} |-> IF x = k THEN v ELSE m[x]]

\* Unsynchronised access to the map by two goroutines at once.
MapRace ==
    \/ Cardinality(writers) > 1
    \/ writers # {} /\ scan.pc = "range"

\* Counting every assignment as a new element.
CountsAlwaysUp(m, n, k, racing) == {n + 1}

\* The element counts a map assignment of key k can leave: the same for a key
\* already there, one more for a new key; when the assignment races with
\* another writer the increment of the count may be lost.
CountsAfter(m, n, k, racing) ==
    IF k \in DOMAIN m THEN {n} ELSE IF racing THEN {n, n + 1} ELSE {n + 1}

\* The map assignment completes and the handler responds.
SetEnd(w) ==
    /\ ~crashed
    /\ w \in writers
    /\ purgeTasks' = MapAssign(purgeTasks, w.ch, w.task)
    /\ count' \in CountsAfter(purgeTasks, count, w.ch, Cardinality(writers) > 1)
    /\ writers' = writers \ {w}
    /\ lastStep' = [kind |-> "response", cmd |-> "set_purge_interval", ch |-> w.ch]
    /\ UNCHANGED <<clock, scan, runs, store, nSets, crashed>>

\* handleStatusCommand
Status ==
    /\ ~crashed
    /\ lastStep' = [kind |-> "response", cmd |-> "status", numTasks |-> Count]
    /\ UNCHANGED <<clock, purgeTasks, count, writers, scan, runs, store, nSets, crashed>>

\* The runtime detects the race ("concurrent map writes", "concurrent map
\* iteration and map write") and kills the process.
Throw ==
    /\ ~crashed
    /\ MapRace
    /\ crashed' = TRUE
    /\ UNCHANGED <<clock, purgeTasks, count, writers, scan, runs, store, nSets>>
    /\ lastStep' = Quiet

\* --------------------------------------------------------- purgeChecker

\* <-ticker.C; now := time.Now(); the range loop starts.
TickStart ==
    /\ ~crashed
    /\ scan.pc = "wait"
    /\ scan' = [pc |-> "range", now |-> clock, initial |-> Registered,
                visited |-> {}, launched |-> {},
                dueAtTick |-> {c \in Registered : purgeTasks[c].NextPurge <= clock}]
    /\ UNCHANGED <<clock, purgeTasks, count, writers, runs, store, nSets, crashed>>
    /\ lastStep' = Quiet

\* A range loop with a per-channel barrier: a due channel whose earlier run
\* is still in flight is passed over.
VisitWithBarrier(channelID) ==
    /\ ~crashed
    /\ scan.pc = "range"
    /\ channelID \in Registered \ scan.visited
    /\ IF /\ Due(scan.now, purgeTasks[channelID])
          /\ \A r \in 1..Len(runs) : runs[r].ch = channelID => runs[r].pc = "done"
       THEN /\ Len(runs) < MaxRuns
            /\ runs' = Append(runs, NewRun(channelID, scan.now))
            /\ purgeTasks' = [purgeTasks EXCEPT
                                ![channelID] = Reschedule(scan.now, @)]
            /\ scan' = [scan EXCEPT !.visited = @ \cup {channelID},
                                    !.launched = @ \cup {channelID}]
       ELSE /\ scan' = [scan EXCEPT !.visited = @ \cup {channelID}]
            /\ UNCHANGED <<purgeTasks, runs>>
    /\ UNCHANGED <<clock, count, writers, store, nSets, crashed>>
    /\ lastStep' = Quiet

\* One iteration of the range loop, on an entry not produced yet.
Visit(channelID) ==
    /\ ~crashed
    /\ scan.pc = "range"
    /\ channelID \in Registered \ scan.visited
    /\ IF Due(scan.now, purgeTasks[channelID])
       THEN /\ Len(runs) < MaxRuns
            /\ runs' = Append(runs, NewRun(channelID, scan.now))
            /\ purgeTasks' = [purgeTasks EXCEPT
                                ![channelID] = Reschedule(scan.now, @)]
            /\ scan' = [scan EXCEPT !.visited = @ \cup {channelID},
                                    !.launched = @ \cup {channelID}]
       ELSE /\ scan' = [scan EXCEPT !.visited = @ \cup {channelID}]
            /\ UNCHANGED <<purgeTasks, runs>>
    /\ UNCHANGED <<clock, count, writers, store, nSets, crashed>>
    /\ lastStep' = Quiet

\* The range loop ends: every entry present when it started was produced; an
\* entry added during the loop may have been skipped.
EndRange ==
    /\ ~crashed
    /\ scan.pc = "range"
    /\ scan.initial \subseteq scan.visited
    /\ scan' = IdleScan
    /\ UNCHANGED <<clock, purgeTasks, count, writers, runs, store, nSets, crashed>>
    /\ lastStep' = Quiet

\* --------------------------------------------------- the message store

\* A cursor that includes the message it names.
ChannelMessagesInclusive(channel, limit, beforeID) ==
    LET older == SelectSeq(channel.posted,
                     LAMBDA m : /\ m.ID \notin channel.deleted
                                /\ (beforeID = 0 \/ m.ID <= beforeID))
    IN  SubSeq(older, 1, Min(limit, Len(older)))

\* s.ChannelMessages(channelID, limit, beforeID, "", ""): the newest `limit`
\* messages older than beforeID (of the whole channel when beforeID is empty,
\* written 0), newest first.
ChannelMessages(channel, limit, beforeID) ==
    LET older == SelectSeq(channel.posted,
                     LAMBDA m : /\ m.ID \notin channel.deleted
                                /\ (beforeID = 0 \/ m.ID < beforeID))
    IN  SubSeq(older, 1, Min(limit, Len(older)))

\* s.ChannelMessageDelete / s.ChannelMessagesBulkDelete: the channel after a
\* successful delete of the messages `ids`.
Remove(channel, ids) == [channel EXCEPT !.deleted = @ \cup ids]

\* The platform refuses a bulk delete that names a message of 14 days or more.
BulkAccepted(channel, ids, now) ==
    \A k \in 1..Len(channel.posted) :
        channel.posted[k].ID \in ids => Young(now, channel.posted[k])

\* ---------------------------------------------------------- purgeChannel

\* The deletion loop's header, for i := ...; i < len(messages); i += 100:
\* the next chunk starts at offset i, or the run is over.
EnterChunk(run, i) ==
    IF i < Len(run.messages)
    THEN [run EXCEPT !.pc = "classify", !.i = i, !.j = i + 1, !.messageIDs = <<>>]
    ELSE [run EXCEPT !.pc = "done", !.i = i]

\* The chunk's end one message short.
ChunkEndShort(run) == Min(run.i + ChunkSize - 1, Len(run.messages))

\* end := i + 100; if end > len(messages) { end = len(messages) }
ChunkEnd(run) == Min(run.i + ChunkSize, Len(run.messages))

\* A pagination loop that an empty page does not stop.
PaginateOn(run, history, err) ==
    LET msgs == ChannelMessages(history, PageSize, run.beforeID)
        asked == [before |-> run.beforeID, limit |-> PageSize,
                  got |-> IF err THEN 0 ELSE Len(msgs)]
        logged == [run EXCEPT !.fetches = Append(@, asked)]
    IN  IF err
        THEN EnterChunk([logged EXCEPT !.fetchFailed = TRUE], 0)
        ELSE IF Len(msgs) = 0
        THEN logged
        ELSE LET more == [logged EXCEPT !.messages = @ \o msgs,
                                        !.beforeID = msgs[Len(msgs)].ID]
             IN  IF Len(msgs) < PageSize THEN EnterChunk(more, 0) ELSE more

\* A pagination loop that asks again after a failed fetch.
PaginateRetry(run, history, err) ==
    LET msgs == ChannelMessages(history, PageSize, run.beforeID)
        asked == [before |-> run.beforeID, limit |-> PageSize,
                  got |-> IF err THEN 0 ELSE Len(msgs)]
        logged == [run EXCEPT !.fetches = Append(@, asked)]
    IN  IF err
        THEN [logged EXCEPT !.fetchFailed = TRUE]
        ELSE IF Len(msgs) = 0
        THEN EnterChunk(logged, 0)
        ELSE LET more == [logged EXCEPT !.messages = @ \o msgs,
                                        !.beforeID = msgs[Len(msgs)].ID]
             IN  IF Len(msgs) < PageSize THEN EnterChunk(more, 0) ELSE more

\* One round of the pagination loop: a page is fetched, or the fetch fails.
Paginate(run, history, err) ==
    LET msgs == ChannelMessages(history, PageSize, run.beforeID)
        asked == [before |-> run.beforeID, limit |-> PageSize,
                  got |-> IF err THEN 0 ELSE Len(msgs)]
        logged == [run EXCEPT !.fetches = Append(@, asked)]
    IN  IF err
        THEN EnterChunk([logged EXCEPT !.fetchFailed = TRUE], 0)
        ELSE IF Len(msgs) = 0
        THEN EnterChunk(logged, 0)
        ELSE LET more == [logged EXCEPT !.messages = @ \o msgs,
                                        !.beforeID = msgs[Len(msgs)].ID]
             IN  IF Len(msgs) < PageSize THEN EnterChunk(more, 0) ELSE more

Fetch(r) ==
    /\ ~crashed
    /\ r \in 1..Len(runs)
    /\ runs[r].pc = "fetch"
    /\ \E err \in BOOLEAN :
         runs' = [runs EXCEPT ![r] = Paginate(@, store[@.ch], err)]
    /\ UNCHANGED <<clock, purgeTasks, count, writers, scan, store, nSets, crashed>>
    /\ lastStep' = Quiet

\* A run that gives up at the first delete call that fails.
AbortOnError(run, ok) == IF ok THEN run ELSE [run EXCEPT !.pc = "done"]

\* if err != nil { fmt.Println("Error deleting message:", err) }: a failed
\* delete or bulk delete is printed and the run goes on as after a success.
LogError(run, ok) == run

\* The inner loop's step past message j: on to the next message of the chunk,
\* or to the request for the chunk's recent messages.
NextMessage(run) ==
    IF run.j + 1 > ChunkEnd(run)
    THEN [run EXCEPT !.pc = "flush", !.j = @ + 1]
    ELSE [run EXCEPT !.j = @ + 1]

\* The inner loop's body on one message, read at time `now`: a recent message
\* is collected, an old one is deleted on its own.
Examine(run, now) ==
    LET msg == run.messages[run.j]
        seen == [run EXCEPT !.pastAge = IF now - msg.Timestamp >= BulkAge
                                        THEN @ \cup {msg.ID} ELSE @]
    IN  IF Young(now, msg)
        THEN NextMessage([seen EXCEPT !.messageIDs = Append(@, msg.ID)])
        ELSE NextMessage([seen EXCEPT !.calls = Append(@,
                 [op |-> "delete", ids |-> <<msg.ID>>, chunk |-> run.i, line |-> 335])])

Classify(r) ==
    /\ ~crashed
    /\ r \in 1..Len(runs)
    /\ runs[r].pc = "classify"
    /\ IF Young(clock, runs[r].messages[runs[r].j])
       THEN /\ runs' = [runs EXCEPT ![r] = Examine(@, clock)]
            /\ UNCHANGED store
       ELSE \E ok \in BOOLEAN :
              /\ runs' = [runs EXCEPT ![r] = LogError(Examine(@, clock), ok)]
              /\ store' = IF ok
                          THEN [store EXCEPT ![runs[r].ch] =
                                  Remove(@, {runs[r].messages[runs[r].j].ID})]
                          ELSE store
    /\ UNCHANGED <<clock, purgeTasks, count, writers, scan, nSets, crashed>>
    /\ lastStep' = Quiet

\* A bulk delete for any non-empty collection, a single id included.
RequestsAlwaysBulk(run) ==
    IF Len(run.messageIDs) >= 1
    THEN <<[op |-> "bulk", ids |-> run.messageIDs, chunk |-> run.i, line |-> 343]>>
    ELSE <<>>

\* The request for the recent messages of the chunk: a bulk delete for more
\* than one, a single delete for one, nothing for none.
Requests(run) ==
    IF Len(run.messageIDs) > 1
    THEN <<[op |-> "bulk", ids |-> run.messageIDs, chunk |-> run.i, line |-> 343]>>
    ELSE IF Len(run.messageIDs) = 1
    THEN <<[op |-> "delete", ids |-> <<run.messageIDs[1]>>, chunk |-> run.i, line |-> 348]>>
    ELSE <<>>

Flush(r) ==
    /\ ~crashed
    /\ r \in 1..Len(runs)
    /\ runs[r].pc = "flush"
    /\ IF Requests(runs[r]) = <<>>
       THEN /\ runs' = [runs EXCEPT ![r] = EnterChunk(@, runs[r].i + ChunkSize)]
            /\ UNCHANGED store
       ELSE \E ok \in BOOLEAN :
              /\ ok /\ Len(runs[r].messageIDs) > 1 =>
                    BulkAccepted(store[runs[r].ch], Range(runs[r].messageIDs), clock)
              /\ runs' = [runs EXCEPT ![r] =
                    LogError(EnterChunk([@ EXCEPT !.calls = @ \o Requests(runs[r])],
                                        runs[r].i + ChunkSize), ok)]
              /\ store' = IF ok
                          THEN [store EXCEPT ![runs[r].ch] =
                                  Remove(@, Range(runs[r].messageIDs))]
                          ELSE store
    /\ UNCHANGED <<clock, purgeTasks, count, writers, scan, nSets, crashed>>
    /\ lastStep' = Quiet

\* -------------------------------------------------------- specifications

Next ==
    \/ AdvanceClock
    \/ \E c \in Channels, n \in IntervalValues, u \in Units : SetBegin(c, n, u)
    \/ \E w \in writers : SetEnd(w)
    \/ Status
    \/ Throw
    \/ TickStart
    \/ \E c \in Channels : Visit(c)
    \/ EndRange
    \/ \E r \in 1..MaxRuns : Fetch(r)
    \/ \E r \in 1..MaxRuns : Classify(r)
    \/ \E r \in 1..MaxRuns : Flush(r)

Spec == Init /\ [][Next]_vars

\* A purge run on its own: the checker has just launched the run of c1, whose
\* history is any of PurgeHistories, and only the run and the clock move.
History(n, nEdge, nOld) ==
    [k \in 1..n |->
        Msg(n + 1 - k,
            IF k > n - nOld THEN 0 - BulkAge
            ELSE IF k > n - nOld - nEdge THEN 1 - BulkAge
            ELSE 0)]

\* Every short history, and long ones that end in at most one message on the
\* 14-day edge and at most one older message.
PurgeSizes ==
    {PageSize - 1, PageSize, PageSize + 1, 2 * PageSize, 2 * PageSize + 50}

PurgeHistories ==
    {History(n, e, o) : n \in 0..MaxSmall, e \in 0..MaxSmall, o \in 0..MaxSmall}
    \cup {History(n, e, o) : n \in PurgeSizes, e \in 0..1, o \in 0..1}

InitPurge ==
    /\ clock = 0
    /\ purgeTasks = [c \in {"c1"} |-> Reschedule(0, [Interval |-> Hour, NextPurge |-> 0 - 1])]
    /\ count = 1
    /\ writers = {}
    /\ scan = IdleScan
    /\ runs = <<NewRun("c1", 0)>>
    /\ store \in {[c \in Channels |-> Channel(IF c = "c1" THEN h ELSE <<>>)] :
                    h \in PurgeHistories}
    /\ nSets = 1
    /\ lastStep = Quiet
    /\ crashed = FALSE

NextPurge ==
    \/ AdvanceClock
    \/ Fetch(1)
    \/ Classify(1)
    \/ Flush(1)

SpecPurge == InitPurge /\ [][NextPurge]_vars

\* The scheduler from a registry that holds one task already: c1 was Set to
\* one hour, and that hour ran out just before the clock's origin.
InitCycle ==
    /\ clock = 0
    /\ purgeTasks = [c \in {"c1"} |-> [Interval |-> Hour, NextPurge |-> 0 - 1]]
    /\ count = 1
    /\ writers = {}
    /\ scan = IdleScan
    /\ runs = <<>>
    /\ store = SchedStore
    /\ nSets = 1
    /\ lastStep = Quiet
    /\ crashed = FALSE

SpecCycle == InitCycle /\ [][Next]_vars

\* The conversion of the command integer on its own: the handler alone, in
\* one channel, fed every positive integer of the duration's width with
\* either unit.
ConvValues == 1..(2 ^ (DurBits - 1) - 1)

NextConv ==
    \/ \E n \in ConvValues, u \in {"hours", "days"} : SetBegin("c1", n, u)
    \/ \E w \in writers : SetEnd(w)

SpecConv == Init /\ [][NextConv]_vars

\* The program as main runs it: main opens the session, whose handlers serve
\* the commands, and waits for a signal. It has no "go purgeChecker(dg)", so
\* the due scan takes no step and no purge run is ever launched. Time passes.
NextMain ==
    \/ AdvanceClock
    \/ \E c \in Channels, n \in IntervalValues, u \in Units : SetBegin(c, n, u)
    \/ \E w \in writers : SetEnd(w)
    \/ Status
    \/ Throw

SpecMain == Init /\ [][NextMain]_vars /\ WF_vars(AdvanceClock)

\* Two runs side by side: a tick at time 0 has launched the runs of c1 and
\* c2, both Set to one hour before; c1 holds any of RunHistories, c2 a recent
\* and an old message. The scan and the runs go on; every goroutine of a run
\* is scheduled again and again, and every store call returns.
RunHistories ==
    {History(n, e, o) : n \in 0..MaxSmall, e \in 0..1, o \in 0..1}
    \cup {History(PageSize + 1, 0, 1)}

InitRuns ==
    /\ clock = 0
    /\ purgeTasks = [c \in Channels |->
                       Reschedule(0, [Interval |-> Hour, NextPurge |-> 0 - 1])]
    /\ count = 2
    /\ writers = {}
    /\ scan = IdleScan
    /\ runs = <<NewRun("c1", 0), NewRun("c2", 0)>>
    /\ store \in {[c \in Channels |->
                      Channel(IF c = "c1" THEN h ELSE History(2, 0, 1))] :
                    h \in RunHistories}
    /\ nSets = 2
    /\ lastStep = Quiet
    /\ crashed = FALSE

NextRuns ==
    \/ AdvanceClock
    \/ TickStart
    \/ \E c \in Channels : Visit(c)
    \/ EndRange
    \/ \E r \in 1..MaxRuns : Fetch(r)
    \/ \E r \in 1..MaxRuns : Classify(r)
    \/ \E r \in 1..MaxRuns : Flush(r)

SpecRuns ==
    /\ InitRuns
    /\ [][NextRuns]_vars
    /\ \A r \in 1..MaxRuns : WF_vars(Fetch(r) \/ Classify(r) \/ Flush(r))

\* ================================================================ claims

\* The step is the range loop's iteration on channel c.
Examines(c) ==
    /\ scan.pc = "range" /\ scan'.pc = "range"
    /\ c \notin scan.visited /\ c \in scan'.visited

\* The step launches a purgeChannel goroutine for channel c.
Launches(c) ==
    /\ Len(runs') = Len(runs) + 1
    /\ runs'[Len(runs')].ch = c

\* The step completes a set_purge_interval for channel c.
Sets(c) ==
    lastStep' = [kind |-> "response", cmd |-> "set_purge_interval", ch |-> c]

\* C1 (as stated): on a tick with captured time now, a run is launched for a
\* registered channel if and only if its nextDue <= now, so a task whose
\* nextDue equals now is launched (stated of the tasks with a positive
\* interval).
C1_LaunchedIffDueOrEqual ==
    [][\A c \in Channels :
         Examines(c) /\ purgeTasks[c].Interval > 0 =>
            (Launches(c) <=> purgeTasks[c].NextPurge <= scan.now)]_vars

\* C1 (amended): a run is launched for channel c only by the scan's iteration
\* on c, and that iteration launches it if and only if c's nextDue is strictly
\* before the tick's captured now; a task with nextDue >= now (equal included)
\* is neither launched nor changed.
C1_LaunchedIffPastDue ==
    [][\A c \in Channels :
         /\ Launches(c) => Examines(c) /\ c \in Registered
         /\ Examines(c) => (Launches(c) <=> purgeTasks[c].NextPurge < scan.now)
         /\ Examines(c) /\ purgeTasks[c].NextPurge >= scan.now =>
               purgeTasks' = purgeTasks /\ runs' = runs]_vars

\* One tick has launched a channel that was past due and has passed over a
\* channel whose nextDue equals the captured now.
C1_Witness ==
    /\ scan.pc = "range"
    /\ scan.launched # {}
    /\ \E c \in scan.visited \ scan.launched :
          c \in Registered /\ purgeTasks[c].NextPurge = scan.now

C3_NextDueNeverRegresses ==
    [][\A c \in Registered :
         purgeTasks[c].Interval > 0 /\ purgeTasks'[c].Interval > 0 =>
            purgeTasks'[c].NextPurge >= purgeTasks[c].NextPurge]_vars

\* C3 (amended): a scheduler tick never moves nextDue back: the nextDue of a
\* task with a non-negative interval decreases only in a step that completes
\* a Set of that channel, and a tick that reschedules such a task moves its
\* nextDue strictly forward.
C3_OnlySetRegresses ==
    [][\A c \in Registered :
         purgeTasks[c].Interval >= 0 =>
            /\ purgeTasks'[c].NextPurge < purgeTasks[c].NextPurge => Sets(c)
            /\ Launches(c) => purgeTasks'[c].NextPurge > purgeTasks[c].NextPurge]_vars

\* A channel was Set twice, and a tick has then moved the nextDue of its task,
\* whose interval is positive, forward.
C3_Witness ==
    /\ nSets = 2 /\ writers = {}
    /\ \E c \in scan.launched :
          /\ Registered = {c}
          /\ purgeTasks[c].Interval > 0
          /\ purgeTasks[c].NextPurge > scan.now

\* C4 (as stated): every task in the registry has a strictly positive
\* interval.
C4_IntervalsPositive ==
    \A c \in Registered : purgeTasks[c].Interval > 0

\* C5: a completed Set of channel c leaves c registered with the handler's
\* interval and nextDue = now + interval (now as the handler read it), leaves
\* every other channel's task and the set of other channels as they were, and
\* when c was registered already the count of tasks is unchanged.
C5_SetInsertsOrReplaces ==
    [][\A c \in Channels :
         Sets(c) =>
            /\ \E w \in writers :
                  /\ w.ch = c
                  /\ w.now <= clock
                  /\ purgeTasks'[c] = [Interval |-> w.interval,
                                       NextPurge |-> w.now + w.interval]
            /\ DOMAIN purgeTasks' = Registered \cup {c}
            /\ \A d \in Registered \ {c} : purgeTasks'[d] = purgeTasks[d]
            /\ c \in Registered => Count' = Count]_vars

\* Two Sets have completed: both on one channel, the count still 1.
C5_Witness ==
    /\ nSets = 2
    /\ writers = {}
    /\ lastStep.kind = "response" /\ lastStep.cmd = "set_purge_interval"
    /\ Registered = {lastStep.ch}
    /\ Count = 1

\* C6 (as stated): the registry is accessed under mutual exclusion: no map
\* write is in progress while the due scan or another map write is.
C6_MutualExclusion == ~MapRace

\* C7 (as stated): once the Sets in progress have completed, Count equals the
\* number of distinct channels ever Set.
C7_CountIsDistinctChannels ==
    writers = {} => Count = Cardinality(Registered)

\* The ids of the messages run.messages[lo..hi], in order.
IdsOf(messages, lo, hi) == [k \in 1..(hi - lo + 1) |-> messages[lo + k - 1].ID]

\* The number of requests of a run that name the message id.
Naming(run, id) ==
    Cardinality({q \in 1..Len(run.calls) : id \in Range(run.calls[q].ids)})

\* The run ended without a failed fetch.
Completed(run) == run.pc = "done" /\ ~run.fetchFailed

\* C8: a completed run on a channel of n messages, all younger than 14 days,
\* has issued exactly ceil(n/100) requests, the q-th one naming exactly the
\* q-th chunk of 100 of the history; it is a bulk delete when the chunk has
\* more than one message and a single delete when it has one.
C8_OneRequestPerChunk ==
    \A r \in 1..Len(runs) :
       LET run == runs[r]
           posted == store[run.ch].posted
           n == Len(posted)
       IN  Completed(run) /\ (\A k \in 1..n : clock - posted[k].Timestamp < 14 * 24 * Hour) =>
              /\ Len(run.calls) = (n + 99) \div 100
              /\ \A q \in 1..Len(run.calls) :
                    LET lo == (q - 1) * 100 + 1
                        hi == Min(q * 100, n)
                    IN  /\ run.calls[q].ids = IdsOf(posted, lo, hi)
                        /\ run.calls[q].op = IF hi > lo THEN "bulk" ELSE "delete"

\* A completed run on 250 recent messages: bulk deletes of 100, 100 and 50.
C8_Witness ==
    \E r \in 1..Len(runs) :
       /\ Completed(runs[r])
       /\ Len(store[runs[r].ch].posted) = 250
       /\ \A k \in 1..250 : clock - store[runs[r].ch].posted[k].Timestamp < 14 * 24 * Hour
       /\ Len(runs[r].calls) = 3
       /\ Len(runs[r].calls[3].ids) = 50

\* The chunks of a run whose requests have all been issued, by their offset.
ChunksDone(run) ==
    {i0 \in {0, 100, 200} : i0 < Len(run.messages) /\ i0 < run.i}

\* C9: every bulk delete of a run names between 2 and 100 messages; in a
\* finished chunk whose recent partition (the messages found younger than 14
\* days) is a single message, that message is named by exactly one request, a
\* single delete, and the chunk has no bulk delete; in a finished chunk whose
\* recent partition is empty the only requests are the single deletes of its
\* old messages.
C9_BulkNeedsTwo ==
    \A r \in 1..Len(runs) :
       LET run == runs[r]
       IN  /\ \A q \in 1..Len(run.calls) :
                 run.calls[q].op = "bulk" =>
                    Len(run.calls[q].ids) >= 2 /\ Len(run.calls[q].ids) <= 100
           /\ \A i0 \in ChunksDone(run) :
                 LET hi == Min(i0 + 100, Len(run.messages))
                     ids == Range(IdsOf(run.messages, i0 + 1, hi))
                     recent == ids \ run.pastAge
                     mine == SelectSeq(run.calls, LAMBDA c : c.chunk = i0)
                 IN  /\ Cardinality(recent) = 1 =>
                          /\ \A id \in recent : Naming(run, id) = 1
                          /\ \A q \in 1..Len(mine) : mine[q].op = "delete"
                          /\ Len(mine) = Cardinality(ids)
                     /\ recent = {} =>
                          /\ \A q \in 1..Len(mine) :
                                mine[q].op = "delete" /\ mine[q].ids[1] \in run.pastAge
                          /\ Len(mine) = Cardinality(ids)

\* A completed run on 101 recent messages: a bulk delete of 100, then a single
\* delete of the one message left in the second chunk.
C9_Witness ==
    \E r \in 1..Len(runs) :
       /\ Completed(runs[r])
       /\ Len(runs[r].messages) = 101
       /\ runs[r].pastAge = {}
       /\ Len(runs[r].calls) = 2
       /\ runs[r].calls[1].op = "bulk" /\ Len(runs[r].calls[1].ids) = 100
       /\ runs[r].calls[2].op = "delete"

C11_PaginationFetches ==
    \A r \in 1..Len(runs) :
       LET run == runs[r]
           posted == store[run.ch].posted
           n == Len(posted)
           nf == Len(run.fetches)
       IN  /\ \A q \in 1..nf :
                 /\ run.fetches[q].limit = 100
                 /\ run.fetches[q].before =
                       IF q = 1 THEN 0 ELSE posted[(q - 1) * 100].ID
                 /\ q < nf => run.fetches[q].got = 100
                 /\ ~run.fetchFailed =>
                       run.fetches[q].got = Min(100, n - (q - 1) * 100)
           /\ run.pc = "fetch" /\ nf > 0 => run.fetches[nf].got = 100
           /\ run.pc # "fetch" /\ ~run.fetchFailed =>
                 /\ nf = (n \div 100) + 1
                 /\ run.fetches[nf].got < 100
                 /\ run.messages = posted

\* A run on exactly 100 messages has ended: one full page, then one fetch with
\* the cursor on the oldest message, which came back empty.
C11_Witness ==
    \E r \in 1..Len(runs) :
       /\ Completed(runs[r])
       /\ Len(store[runs[r].ch].posted) = 100
       /\ Len(runs[r].fetches) = 2
       /\ runs[r].fetches[2] =
             [before |-> store[runs[r].ch].posted[100].ID, limit |-> 100, got |-> 0]
       /\ Len(runs[r].messages) = 100

\* C12: on an empty channel a run is over as soon as it has made its first
\* fetch, which brought no message, and it has issued no delete and no bulk
\* delete; a run that is over has made a fetch.
C12_EmptyChannelOneFetch ==
    \A r \in 1..Len(runs) :
       LET run == runs[r]
       IN  /\ run.pc # "fetch" => Len(run.fetches) >= 1
           /\ store[run.ch].posted = <<>> /\ run.fetches # <<>> =>
                 /\ run.pc = "done"
                 /\ Len(run.fetches) = 1
                 /\ run.fetches[1].got = 0
                 /\ run.messages = <<>>
                 /\ run.calls = <<>>

\* A run on an empty channel is over after one successful fetch.
C12_Witness ==
    \E r \in 1..Len(runs) :
       /\ store[runs[r].ch].posted = <<>>
       /\ runs[r].pc = "done" /\ ~runs[r].fetchFailed
       /\ Len(runs[r].fetches) = 1
       /\ runs[r].calls = <<>>

\* C13: whatever delete calls fail, a run that is over has processed its
\* whole accumulated history (after a failed fetch too): every message of it
\* is named by exactly one request, a single delete or one bulk delete; the
\* requests come chunk after chunk, each naming messages of its own chunk
\* only; and a run stops only past the end of the history.
C13_FailuresDoNotAbort ==
    \A r \in 1..Len(runs) :
       LET run == runs[r]
           n == Len(run.messages)
       IN  /\ run.pc = "done" =>
                 /\ run.i >= n
                 /\ \A k \in 1..n : Naming(run, run.messages[k].ID) = 1
           /\ run.pc \in {"classify", "flush"} => run.i < n
           /\ \A q \in 1..Len(run.calls) :
                 /\ Range(run.calls[q].ids) \subseteq
                       Range(IdsOf(run.messages, run.calls[q].chunk + 1,
                                   Min(run.calls[q].chunk + 100, n)))
                 /\ q > 1 => run.calls[q - 1].chunk <= run.calls[q].chunk

\* A run on MaxSmall messages is over: its first request failed (the message
\* is still in the channel) and its last one succeeded.
C13_Witness ==
    \E r \in 1..Len(runs) :
       LET run == runs[r]
           gone == store[run.ch].deleted
       IN  /\ run.pc = "done"
           /\ Len(run.messages) = MaxSmall
           /\ Len(run.calls) >= 2
           /\ Range(run.calls[1].ids) \cap gone = {}
           /\ Range(run.calls[Len(run.calls)].ids) \subseteq gone

\* The time of the latest launch of a run for channel c.
LatestLaunch(c) ==
    LET of == {r \in 1..Len(runs) : runs[r].ch = c}
    IN  runs[CHOOSE r \in of : \A q \in of : q <= r].launchedAt

\* C14: the launch of a run for channel c leaves c's nextDue at now +
\* interval; afterwards only a completed Set of c or the next launch for c
\* changes c's task; and as long as the registry holds for c the task as the
\* latest launch left it (no Set of c since), a further run for c is launched
\* only by a tick whose now is past that launch's now + interval, and so past
\* every earlier launch's, whether the earlier runs are over, failed or in
\* flight.
C14_NoRelaunchWithinInterval ==
    [][\A c \in Channels :
         /\ Launches(c) =>
               purgeTasks'[c].NextPurge = scan.now + purgeTasks'[c].Interval
         /\ c \in Registered /\ purgeTasks'[c] # purgeTasks[c] =>
               Sets(c) \/ Launches(c)
         /\ Launches(c) /\ (\E r \in 1..Len(runs) : runs[r].ch = c)
               /\ purgeTasks[c].NextPurge = LatestLaunch(c) + purgeTasks[c].Interval =>
               \A r \in 1..Len(runs) :
                  runs[r].ch = c =>
                     scan.now > runs[r].launchedAt + purgeTasks[c].Interval]_vars

\* A second run for a channel with a positive interval has been launched, more
\* than the interval after the first one, whose fetch had failed; the task was
\* not Set in between.
C14_Witness ==
    /\ nSets = 1
    /\ Len(runs) = 2
    /\ runs[1].ch = runs[2].ch
    /\ purgeTasks[runs[1].ch].Interval > 0
    /\ runs[1].fetchFailed
    /\ runs[2].launchedAt > runs[1].launchedAt + purgeTasks[runs[1].ch].Interval

\* The step changes nothing of the registry and sends no response, and the
\* process is alive after it.
Ignored ==
    /\ purgeTasks' = purgeTasks
    /\ count' = count
    /\ writers' = writers
    /\ lastStep'.kind # "response"
    /\ ~crashed'

\* C15: a set_purge_interval whose unit is neither "hours" nor "days" leaves
\* the registry (keys, intervals, nextDue, count, assignments in progress) as
\* it was and sends no response; the process is alive afterwards and still
\* answers a status command.
C15_UnknownUnitIgnored ==
    /\ [][(\A c \in Channels, n \in IntervalValues, u \in Units \ {"hours", "days"} :
               SetBegin(c, n, u) => (Ignored /\ lastStep' = [kind |-> "ignored"]))
           /\ (lastStep'.kind = "ignored" => Ignored)]_vars
    /\ [](lastStep.kind = "ignored" => ENABLED Status)

\* A command with an unknown unit has just been ignored while a task is
\* registered and another Set is inside its map assignment.
C15_Witness ==
    /\ lastStep.kind = "ignored"
    /\ Registered # {}
    /\ writers # {}

\* C16 (as stated): for every positive command integer n and either unit, the
\* handler computes interval = n hours, respectively n * 24 hours, a positive
\* duration, and nextDue = now + interval, strictly after now: the product
\* never wraps.
C16_ConversionNeverWraps ==
    [][\A c \in Channels, n \in ConvValues, u \in {"hours", "days"} :
         SetBegin(c, n, u) =>
            \A w \in writers' \ writers :
               /\ w.interval = n * Hour * (IF u = "days" THEN 24 ELSE 1)
               /\ w.interval > 0
               /\ w.task.NextPurge = clock + w.interval
               /\ w.task.NextPurge > clock]_vars

\* C17: a channel enters the registry, or has its interval changed, only in a
\* step that completes a Set of that channel, and no channel ever leaves it;
\* a step of the due scan keeps the registered channels, their intervals and
\* the count, and changes the nextDue of a task only when it launches that
\* task's run, the task being past due at the tick's now; a step of a purge
\* run changes nothing of the registry; and Count never decreases.
C17_OnlySetChangesRegistry ==
    [][/\ \A c \in Channels :
            /\ c \in Registered => c \in DOMAIN purgeTasks'
            /\ (c \notin Registered /\ c \in DOMAIN purgeTasks') => Sets(c)
            /\ (c \in Registered /\ purgeTasks'[c].Interval # purgeTasks[c].Interval) =>
                  Sets(c)
            /\ (c \in Registered /\ purgeTasks'[c] # purgeTasks[c] /\ ~Sets(c)) =>
                  /\ Examines(c) /\ Launches(c)
                  /\ purgeTasks[c].NextPurge < scan.now
       /\ scan' # scan =>
            /\ DOMAIN purgeTasks' = Registered
            /\ Count' = Count
            /\ \A c \in Registered : purgeTasks'[c].Interval = purgeTasks[c].Interval
       /\ (\E r \in 1..Len(runs) : runs'[r] # runs[r]) =>
            purgeTasks' = purgeTasks /\ Count' = Count
       /\ Count' >= Count]_vars

\* Two channels are registered; the tick in progress has launched one of them
\* and passed over the other, which is not due yet, and an earlier run has
\* made a fetch.
C17_Witness ==
    /\ Count = 2 /\ Cardinality(Registered) = 2
    /\ scan.pc = "range"
    /\ scan.launched # {}
    /\ \E c \in scan.visited \ scan.launched : purgeTasks[c].NextPurge > scan.now
    /\ \E r \in 1..Len(runs) : runs[r].fetches # <<>>

\* C18 (as stated, in its weakest consequence): once a channel is registered
\* with a positive interval and its nextDue has passed, a purge run for that
\* channel is eventually launched.
C18_DueChannelEventuallyPurged ==
    \A c \in Channels :
       (c \in Registered /\ purgeTasks[c].Interval > 0 /\ purgeTasks[c].NextPurge < clock)
          ~> (\E r \in 1..Len(runs) : runs[r].ch = c)

\* A run for channel c is in flight: launched and not over.
InFlight(c) == \E r \in 1..Len(runs) : runs[r].ch = c /\ runs[r].pc # "done"

\* C19: the due scan decides on a channel without regard to the runs in
\* flight: when it examines a channel that has a run in flight it launches a
\* further run for it exactly when the task is past due, and the earlier run
\* is left as it is.
C19_NoBarrierAgainstOverlap ==
    [][\A c \in Channels :
         Examines(c) /\ InFlight(c) =>
            /\ Launches(c) <=> purgeTasks[c].NextPurge < scan.now
            /\ \A r \in 1..Len(runs) : runs'[r] = runs[r]]_vars

\* Two runs for one channel are in flight at once: the second was launched a
\* full interval after the first, which has made a fetch and is not over; the
\* channel was not Set again.
C19_Witness ==
    /\ nSets = 1
    /\ Len(runs) = 2
    /\ runs[1].ch = runs[2].ch
    /\ runs[1].pc # "done" /\ runs[1].fetches # <<>>
    /\ runs[2].pc # "done"
    /\ runs[2].launchedAt > runs[1].launchedAt

\* C20: every run that is launched comes to its end, whatever fetch and
\* delete calls fail; a fetch that fails is the run's last one, it leaves the
\* messages of the earlier pages accumulated, and the run that ends after it
\* has named every one of them in exactly one request; and a step of a run,
\* failed call or not, leaves the due scan, the other runs and the process as
\* they were.
C20_RunsTerminate ==
    /\ \A r \in 1..MaxRuns :
          (r <= Len(runs)) ~> (r <= Len(runs) /\ runs[r].pc = "done")
    /\ [][\A r \in 1..Len(runs) :
            runs'[r] # runs[r] =>
               /\ scan' = scan /\ ~crashed'
               /\ \A q \in 1..Len(runs) : q # r => runs'[q] = runs[q]
               /\ runs[r].pc = "fetch" =>
                     Len(runs'[r].fetches) = Len(runs[r].fetches) + 1
               /\ (runs[r].pc = "fetch" /\ runs'[r].fetchFailed) =>
                     /\ runs'[r].pc # "fetch"
                     /\ runs'[r].messages = runs[r].messages
               /\ runs[r].pc # "fetch" =>
                     /\ runs'[r].fetches = runs[r].fetches
                     /\ runs'[r].messages = runs[r].messages]_vars
    /\ [](\A r \in 1..Len(runs) :
            runs[r].pc = "done" /\ runs[r].fetchFailed =>
               \A k \in 1..Len(runs[r].messages) :
                  Naming(runs[r], runs[r].messages[k].ID) = 1)

\* Both runs are over: the run of c1 after a first full page and a second
\* fetch that failed, with a bulk delete of the hundred messages it had; the
\* run of c2 after a delete that failed; and the due scan is at work.
C20_Witness ==
    /\ Len(runs) = 2
    /\ runs[1].pc = "done" /\ runs[1].fetchFailed
    /\ Len(runs[1].fetches) = 2
    /\ Len(runs[1].messages) = PageSize
    /\ Len(runs[1].calls) = 1 /\ runs[1].calls[1].op = "bulk"
    /\ runs[2].pc = "done" /\ Len(runs[2].calls) = 2
    /\ store[runs[2].ch].deleted = {}
    /\ scan.pc = "range"

====
